---- MODULE Spec2Model ----
(***************************************************************************)
(* Model of two VyOS conf-mode scripts:                                    *)
(*   src/conf_mode/protocols_rip.py        (get_config/verify/generate/    *)
(*                                          apply for FRR ripd)            *)
(*   src/conf_mode/system-login-radius.py  (get_config/verify/generate/    *)
(*                                          apply for pam_radius_auth)     *)
(* A Python dict is a TLA+ function whose DOMAIN is the dict's key set;    *)
(* the empty dict is EmptyDict.  A text of FRR configuration is the        *)
(* sequence of its top-level sections, a section being <<kind, name>>.     *)
(***************************************************************************)
EXTENDS Integers, Sequences, FiniteSets, TLC

VARIABLES
    pc,                   \* stage of __main__ about to run, or "exit"
    raised,               \* the exception that ended the run: <<type, message, value>>
    stdout,               \* what print() wrote
    status,               \* the process's exit status, NoStatus while running
    store,                \* protocols_rip: the configuration store (CLI tree)
    rip,                  \* protocols_rip: the subtree dictionary c
    daemon,               \* protocols_rip: ripd's running configuration
    daemon0,              \* protocols_rip: ripd's configuration before the first apply
    first,                \* protocols_rip: ripd's configuration after the first apply
    calls,                \* protocols_rip: the calls apply() made on frr_cfg, in order
    runs,                 \* protocols_rip: how many times apply() has completed
    rstore,               \* radius: the configuration store (CLI tree)
    default_config_data,  \* radius: the module-level dictionary
    radius,               \* radius: the dictionary get_config() returned
    ncalls,               \* radius: number of get_config() calls in this process
    file,                 \* radius: /etc/pam_radius_auth.conf
    file0,                \* radius: that file before the run
    system_calls          \* radius: the os.system() commands run, with their outcome

vars == <<pc, raised, stdout, status, store, rip, daemon, daemon0, first,
          calls, runs, rstore, default_config_data, radius, ncalls, file, file0,
          system_calls>>

ripVars    == <<store, rip, daemon, daemon0, first, calls, runs>>
radiusVars == <<rstore, default_config_data, radius, ncalls, file, file0,
                system_calls>>

(***************************************************************************)
(* Bounds of the model.                                                    *)
(***************************************************************************)
MaxIfaces  == 2    \* RIP interfaces in the store
MaxCfgLen  == 3    \* top-level sections in ripd's running configuration
MaxTextLen == 2    \* top-level sections in a rendered text
MaxServers == 2    \* RADIUS server nodes in the store
MaxCalls   == 2    \* get_config() calls in one process

(***************************************************************************)
(* Python values.                                                          *)
(***************************************************************************)
None      == "None"
NoStatus  == 0 - 1
NoError   == <<"none", "", "">>
EmptyDict == [k \in {} |-> None]

ConfigError(msg, value) == <<"ConfigError", msg, value>>

\* d[k] = v on a dict
DictSet(d, k, v) == [x \in (DOMAIN d) \cup {k} |-> IF x = k THEN v ELSE d[x]]

\* str.replace('-', '_') and the key_mangling=('-', '_') of get_config_dict, on
\* the names of the model
Replace(s) ==
    CASE s = "a-b" -> "a_b"
      [] s = "access-list" -> "access_list"
      [] s = "prefix-list" -> "prefix_list"
      [] s = "route-map" -> "route_map"
      [] s = "distribute-list" -> "distribute_list"
      [] s = "default-metric" -> "default_metric"
      [] s = "split-horizon" -> "split_horizon"
      [] s = "poison-reverse" -> "poison_reverse"
      [] s = "plaintext-password" -> "plaintext_password"
      [] OTHER -> s

\* a dict with every key mangled (one level)
MangleKeys(d) ==
    [k \in {Replace(x) : x \in DOMAIN d} |->
        d[CHOOSE x \in DOMAIN d : Replace(x) = k]]

\* vyos.configdict.dict_merge(source, destination): keys of destination win
dict_merge(source, destination) ==
    [k \in (DOMAIN source) \cup (DOMAIN destination) |->
        IF k \in DOMAIN destination THEN destination[k] ELSE source[k]]

\* vyos.util.dict_search(path, d) is not None, path given as its keys
RECURSIVE dict_has(_, _)
dict_has(path, d) ==
    IF path = <<>> THEN TRUE
    ELSE /\ Head(path) \in DOMAIN d
         /\ dict_has(Tail(path), d[Head(path)])

\* vyos.util.dict_search(path, d) where the path exists
RECURSIVE dict_get(_, _)
dict_get(path, d) ==
    IF path = <<>> THEN d ELSE dict_get(Tail(path), d[Head(path)])

\* vyos.util.dict_search(path, d) for a path that ends in a scalar
dict_search(path, d) == IF dict_has(path, d) THEN dict_get(path, d) ELSE None

\* (dict_search(path, d) or []) as the collection "in" tests membership of
keys_or_empty(path, d) == IF dict_has(path, d) THEN DOMAIN dict_get(path, d) ELSE {}

(***************************************************************************)
(* protocols_rip: the configuration store.                                 *)
(***************************************************************************)
AclNames == {"10", "20"}
PlNames  == {"a-b", "c"}
RmNames  == {"RM"}
Ifaces   == 1..MaxIfaces

AuthKeys  == {"md5", "plaintext-password"}
SplitKeys == {"disable", "poison-reverse"}

\* the CLI nodes under one "interface <name>": each of authentication and
\* split-horizon is absent (no key) or holds a non-empty set of options
IfaceNode(a, s) ==
    [k \in (IF a = {} THEN {} ELSE {"authentication"})
           \cup (IF s = {} THEN {} ELSE {"split-horizon"}) |->
        IF k = "authentication" THEN [x \in a |-> "secret"] ELSE [x \in s |-> "set"]]

IfaceNodes == {IfaceNode(a, s) : a \in SUBSET AuthKeys, s \in SUBSET SplitKeys}

IfaceTrees(nodes) == UNION {[D -> nodes] : D \in SUBSET Ifaces}

\* no interface, or one interface with key-chain authentication
IfaceTreesSmall == {EmptyDict, [i \in {1} |-> IfaceNode({"md5"}, {})]}

RefSet(names) == names \cup {None}

StoreOf(ex, ai, ao, pi, po, rm, dm, ifs, pa, pp, pr) ==
    [exists |-> ex, acl_in |-> ai, acl_out |-> ao, pl_in |-> pi, pl_out |-> po,
     route_map |-> rm, default_metric |-> dm, interface |-> ifs,
     pol_acl |-> pa, pol_pl |-> pp, pol_rm |-> pr]

\* stores that vary the distribute-list references and the policy's lists
StoresDL ==
    {StoreOf(TRUE, ai, ao, pi, po, None, None, ifs, pa, pp, {}) :
        ai \in RefSet(AclNames), ao \in RefSet(AclNames),
        pi \in RefSet(PlNames), po \in RefSet(PlNames),
        ifs \in IfaceTreesSmall,
        pa \in SUBSET AclNames, pp \in SUBSET PlNames}

\* stores that vary the interfaces
StoresIf ==
    {StoreOf(TRUE, None, None, None, None, None, None, ifs, {}, {}, {}) :
        ifs \in IfaceTrees(IfaceNodes)}

\* stores that vary the route-map reference and the explicit default-metric
StoresRm ==
    {StoreOf(TRUE, None, None, None, None, rm, dm, ifs, {}, {}, pr) :
        rm \in RefSet(RmNames), dm \in {None, "5"}, ifs \in IfaceTreesSmall,
        pr \in SUBSET RmNames}

\* stores without "protocols rip"
StoresAbsent ==
    {StoreOf(FALSE, None, None, None, None, None, None, EmptyDict, pa, pp, pr) :
        pa \in SUBSET AclNames, pp \in SUBSET PlNames, pr \in SUBSET RmNames}

Stores == StoresDL \cup StoresIf \cup StoresRm \cup StoresAbsent

\* a dict of the entries whose value is set: name -> value for value # None
Present(pairs) ==
    [k \in {p[1] : p \in {q \in pairs : q[2] # None}} |->
        (CHOOSE p \in pairs : p[1] = k)[2]]

\* a dict of the entries whose value is a non-empty dict
NonEmpty(pairs) ==
    [k \in {p[1] : p \in {q \in pairs : DOMAIN q[2] # {}}} |->
        (CHOOSE p \in pairs : p[1] = k)[2]]

\* conf.get_config_dict(['protocols', 'rip'], key_mangling=('-', '_'),
\* get_first_key=True): the subtree as a dict, keys mangled at every level, {} when
\* the subtree does not exist
get_config_dict_rip(st) ==
    IF ~st.exists THEN EmptyDict
    ELSE LET acl == Present({<<"in", st.acl_in>>, <<"out", st.acl_out>>})
             pl  == Present({<<"in", st.pl_in>>, <<"out", st.pl_out>>})
             dl  == NonEmpty({<<"access-list", acl>>, <<"prefix-list", pl>>})
             rd  == IF st.route_map = None THEN EmptyDict
                    ELSE [p \in {"connected"} |-> [k \in {"route-map"} |-> st.route_map]]
             ifs == [i \in DOMAIN st.interface |->
                        LET n == st.interface[i]
                        IN  MangleKeys([k \in DOMAIN n |-> MangleKeys(n[k])])]
             top == NonEmpty({<<"distribute-list", MangleKeys(dl)>>,
                              <<"redistribute", [p \in DOMAIN rd |-> MangleKeys(rd[p])]>>,
                              <<"interface", ifs>>})
             dm  == Present({<<"default-metric", st.default_metric>>})
         IN  MangleKeys(dict_merge(top, dm))

\* conf.get_config_dict(['policy'], key_mangling=('-', '_')): {'policy': {...}} with
\* the names of the lists, being keys, mangled too; {} when there is no policy
get_config_dict_policy(st) ==
    LET lists(names) == [n \in {Replace(x) : x \in names} |-> "rules"]
        pol == NonEmpty({<<"access-list", lists(st.pol_acl)>>,
                         <<"prefix-list", lists(st.pol_pl)>>,
                         <<"route-map", lists(st.pol_rm)>>})
    IN  IF DOMAIN pol = {} THEN EmptyDict ELSE [k \in {"policy"} |-> MangleKeys(pol)]

\* vyos.xml.defaults(['protocols', 'rip'])
defaults == [k \in {"default_distance", "default_metric"} |->
                IF k = "default_metric" THEN "1" ELSE "120"]

(***************************************************************************)
(* protocols_rip: the four stages as functions.                            *)
(***************************************************************************)
\* get_config without the early return of lines 44-45
get_config_nobail(st) ==
    dict_merge(get_config_dict_policy(st),
               dict_merge(defaults, get_config_dict_rip(st)))

\* get_config(): lines 41-60
get_config(st) ==
    LET rip0 == get_config_dict_rip(st)
    IN  IF ~st.exists THEN rip0
        ELSE dict_merge(get_config_dict_policy(st), dict_merge(defaults, rip0))

\* auth_conflict testing for any of the two options
auth_conflict_any(o) ==
    /\ "authentication" \in DOMAIN o
    /\ {"md5", "plaintext_password"} \cap DOMAIN o["authentication"] # {}

\* line 85
auth_conflict(o) ==
    /\ "authentication" \in DOMAIN o
    /\ {"md5", "plaintext_password"} \subseteq DOMAIN o["authentication"]
\* line 88
split_conflict(o) ==
    /\ "split_horizon" \in DOMAIN o
    /\ {"disable", "poison_reverse"} \subseteq DOMAIN o["split_horizon"]

\* the first interface, in the dict's order, whose options conflict, 0 when none
first_conflict(ifs) ==
    LET bad == {i \in DOMAIN ifs : auth_conflict(ifs[i]) \/ split_conflict(ifs[i])}
    IN  IF bad = {} THEN 0 ELSE CHOOSE i \in bad : \A j \in bad : i <= j

\* vyos.configverify.verify_route_maps
verify_route_maps(d) ==
    IF "redistribute" \notin DOMAIN d THEN NoError
    ELSE LET bad == {p \in DOMAIN d["redistribute"] :
                        /\ "route_map" \in DOMAIN d["redistribute"][p]
                        /\ d["redistribute"][p]["route_map"]
                               \notin keys_or_empty(<<"policy", "route_map">>, d)}
         IN  IF bad = {} THEN NoError
             ELSE ConfigError("Specified route-map does not exist!",
                              d["redistribute"][CHOOSE p \in bad : TRUE]["route_map"])

\* lines 82-90
verify_interfaces(d) ==
    IF "interface" \notin DOMAIN d THEN NoError
    ELSE LET i == first_conflict(d["interface"])
         IN  IF i = 0 THEN NoError
             ELSE IF auth_conflict(d["interface"][i])
                  THEN ConfigError("Can not use both md5 and plaintext-password at the same time!", "")
                  ELSE ConfigError("You can not have split-horizon poison-reverse enabled with split-horizon disable", i)

\* verify_prefix looking the name up as written
verify_prefix_noreplace(ref, d) ==
    ref # None /\ ref \notin keys_or_empty(<<"policy", "prefix_list">>, d)

\* lines 75 and 79: the name, with '-' replaced by '_', is not a key of policy.prefix_list
verify_prefix(ref, d) ==
    ref # None /\ Replace(ref) \notin keys_or_empty(<<"policy", "prefix_list">>, d)

\* lines 67 and 71
verify_acl(ref, d) ==
    ref # None /\ ref \notin keys_or_empty(<<"policy", "access_list">>, d)

\* verify(rip): the exception it raises, NoError when it returns
verify(d) ==
    LET acl_in  == dict_search(<<"distribute_list", "access_list", "in">>, d)
        acl_out == dict_search(<<"distribute_list", "access_list", "out">>, d)
        prefix_list_in  == dict_search(<<"distribute_list", "prefix_list", "in">>, d)
        prefix_list_out == dict_search(<<"distribute_list", "prefix_list", "out">>, d)
    IN  IF DOMAIN d = {} THEN NoError
        ELSE IF verify_acl(acl_in, d)
             THEN ConfigError("Inbound ACL does not exist!", acl_in)
        ELSE IF verify_acl(acl_out, d)
             THEN ConfigError("Outbound ACL does not exist!", acl_out)
        ELSE IF verify_prefix(prefix_list_in, d)
             THEN ConfigError("Inbound prefix-list does not exist!", prefix_list_in)
        ELSE IF verify_prefix(prefix_list_out, d)
             THEN ConfigError("Outbound prefix-list does not exist!", prefix_list_out)
        ELSE IF verify_interfaces(d) # NoError THEN verify_interfaces(d)
        ELSE verify_route_maps(d)

(***************************************************************************)
(* Texts of FRR configuration: sequences of top-level sections.            *)
(***************************************************************************)
Section(kind, n) == <<kind, n>>
Kind(s) == s[1]

Min(S) == CHOOSE i \in S : \A j \in S : i <= j

RECURSIVE Sections(_, _)
Sections(kind, S) ==
    IF S = {} THEN <<>>
    ELSE <<Section(kind, Min(S))>> \o Sections(kind, S \ {Min(S)})

\* vyos.template.render_to_string('frr/rip.frr.tmpl', rip): a key chain per
\* interface with md5 authentication, a section per interface, and router rip
render_to_string(d) ==
    LET ifs == IF "interface" \in DOMAIN d THEN d["interface"] ELSE EmptyDict
        md5 == {i \in DOMAIN ifs : dict_has(<<"authentication", "md5">>, ifs[i])}
    IN  Sections("key chain", md5) \o Sections("interface", DOMAIN ifs)
            \o <<Section("router rip", 0)>>

\* generate returning a dictionary of its own
generate_replacing(d) ==
    IF DOMAIN d = {} THEN d
    ELSE [k \in {"new_frr_config"} |-> render_to_string(d)]

\* generate(rip): the dictionary afterwards; '' is the text without sections
generate(d) ==
    IF DOMAIN d = {} THEN DictSet(d, "new_frr_config", <<>>)
    ELSE DictSet(d, "new_frr_config", render_to_string(d))

\* the section patterns of lines 107-109 and the anchor pattern of line 110
KeyChain  == "key chain"
Interface == "interface"
RouterRip == "router rip"
AnchorKinds == {"ip prefix-list", "route-map", "line vty"}

\* frr.FRRConfig.modify_section(pattern, ''): every section matching is removed
modify_section(config, kind) ==
    LET keep(s) == Kind(s) # kind IN SelectSeq(config, keep)

\* frr.FRRConfig.add_before(pattern, text): text goes before the first section
\* matching the pattern; without a match nothing is inserted
add_before(config, text) ==
    LET hits == {i \in 1..Len(config) : Kind(config[i]) \in AnchorKinds}
    IN  IF hits = {} THEN config
        ELSE SubSeq(config, 1, Min(hits) - 1) \o text
                 \o SubSeq(config, Min(hits), Len(config))

\* the number of repeated commits, range(5)
RerunCommits == 5

\* apply_edit without line 109
apply_edit_keeping_router(config, text) ==
    add_before(modify_section(modify_section(config, KeyChain), Interface), text)

\* lines 107-110: the configuration frr_cfg holds when it is committed
apply_edit(config, text) ==
    add_before(
        modify_section(modify_section(modify_section(config, KeyChain), Interface),
                       RouterRip),
        text)

\* apply_calls without the test of line 115
apply_calls_always_rerun(text) ==
    <<"load_configuration", "modify_section key chain", "modify_section interface",
      "modify_section router rip", "add_before", "commit_configuration">>
    \o [i \in 1..RerunCommits |-> "commit_configuration"]

\* lines 105-117: the calls apply() makes on frr_cfg
apply_calls(text) ==
    <<"load_configuration", "modify_section key chain", "modify_section interface",
      "modify_section router rip", "add_before", "commit_configuration">>
    \o (IF text = <<>> THEN [i \in 1..RerunCommits |-> "commit_configuration"]
        ELSE <<>>)

(***************************************************************************)
(* protocols_rip: __main__, one action per stage.  An exception raised by  *)
(* a stage is caught by the except clause, which prints it and exits 1.    *)
(***************************************************************************)
rip_get_config ==
    /\ pc = "get_config"
    /\ rip' = get_config(store)
    /\ pc' = "verify"
    /\ UNCHANGED <<raised, stdout, status, store, daemon, daemon0, first, calls, runs>>
    /\ UNCHANGED radiusVars

rip_verify ==
    /\ pc = "verify"
    /\ LET e == verify(rip)
       IN  IF e = NoError
           THEN /\ pc' = "generate"
                /\ UNCHANGED <<raised, stdout, status>>
           ELSE /\ raised' = e
                /\ stdout' = Append(stdout, e[2])
                /\ status' = 1
                /\ pc' = "exit"
    /\ UNCHANGED ripVars
    /\ UNCHANGED radiusVars

rip_generate ==
    /\ pc = "generate"
    /\ rip' = generate(rip)
    /\ pc' = "apply"
    /\ UNCHANGED <<raised, stdout, status, store, daemon, daemon0, first, calls, runs>>
    /\ UNCHANGED radiusVars

rip_apply ==
    /\ pc = "apply"
    /\ daemon' = apply_edit(daemon, rip["new_frr_config"])
    /\ calls' = calls \o apply_calls(rip["new_frr_config"])
    /\ runs' = runs + 1
    /\ first' = IF runs = 0 THEN daemon' ELSE first
    /\ status' = 0
    /\ pc' = "exit"
    /\ UNCHANGED <<raised, stdout, store, rip, daemon0>>
    /\ UNCHANGED radiusVars

\* the script is run again with the same rendered text (the next commit)
MaxRuns == 2

rip_rerun ==
    /\ pc = "exit"
    /\ status = 0
    /\ runs < MaxRuns
    /\ pc' = "apply"
    /\ status' = NoStatus
    /\ calls' = <<>>
    /\ UNCHANGED <<raised, stdout, store, rip, daemon, daemon0, first, runs>>
    /\ UNCHANGED radiusVars

\* the radius script's state while the rip script is modelled
RadiusIdle ==
    /\ rstore = [exists |-> FALSE, source_address |-> None, server |-> EmptyDict]
    /\ default_config_data = [server |-> <<>>, source_address |-> ""]
    /\ radius = default_config_data
    /\ ncalls = 0
    /\ file = [exists |-> FALSE, owner |-> None, mode |-> None, content |-> <<>>]
    /\ file0 = file
    /\ system_calls = <<>>

RunStart ==
    /\ raised = NoError
    /\ stdout = <<>>
    /\ status = NoStatus

\* ripd's running configuration at the start of the pipeline model
DaemonCfgs0 == {<<Section("line vty", 0)>>,
                <<Section("interface", 1), Section("router rip", 0),
                  Section("line vty", 0)>>}

InitRip ==
    /\ RunStart
    /\ RadiusIdle
    /\ pc = "get_config"
    /\ store \in Stores
    /\ rip = EmptyDict
    /\ daemon \in DaemonCfgs0
    /\ daemon0 = daemon
    /\ first = <<>>
    /\ calls = <<>>
    /\ runs = 0

NextRip == rip_get_config \/ rip_verify \/ rip_generate \/ rip_apply

SpecRip == InitRip /\ [][NextRip]_vars

(***************************************************************************)
(* protocols_rip: apply() run again on what the first run committed.       *)
(***************************************************************************)
SeqsUpTo(A, n) == UNION {[1..k -> A] : k \in 0..n}

\* "other" is a top-level line that none of the patterns of apply() matches
CfgAlphabet  == {Section("interface", 1), Section("router rip", 0),
                 Section("route-map", 0), Section("line vty", 0), Section("other", 0)}
TextAlphabet == {Section("key chain", 1), Section("interface", 1),
                 Section("router rip", 0), Section("other", 0)}

InitApply ==
    /\ RunStart
    /\ RadiusIdle
    /\ pc = "apply"
    /\ store = StoreOf(TRUE, None, None, None, None, None, None, EmptyDict, {}, {}, {})
    /\ \E text \in SeqsUpTo(TextAlphabet, MaxTextLen) :
           rip = DictSet(get_config(store), "new_frr_config", text)
    /\ daemon \in SeqsUpTo(CfgAlphabet, MaxCfgLen)
    /\ daemon0 = daemon
    /\ first = <<>>
    /\ calls = <<>>
    /\ runs = 0

NextApply == rip_apply \/ rip_rerun

SpecApply == InitApply /\ [][NextApply]_vars

(***************************************************************************)
(* system-login-radius: the configuration store.                           *)
(***************************************************************************)
ServerNodes ==
    [disable : BOOLEAN, key : {None, "s3cret"}, port : {None, "1645"},
     timeout : {None, "5"}]

\* conf.list_nodes(['server']): the addresses are distinct; the store lists them
\* in its own (ascending) order
ServerTrees == UNION {[A -> ServerNodes] : A \in SUBSET (1..MaxServers)}

RStores ==
    {[exists |-> TRUE, source_address |-> sa, server |-> t] :
        sa \in {None, "192.0.2.1"}, t \in ServerTrees}
    \cup {[exists |-> FALSE, source_address |-> None, server |-> EmptyDict]}

list_nodes(st) == Sections("server", DOMAIN st.server)

\* lines 78-101: one server's dictionary, explicit values over the defaults
server_cfg(address, node) ==
    [address  |-> address,
     disabled |-> node.disable,
     key      |-> IF node.key # None THEN node.key ELSE "",
     port     |-> IF node.port # None THEN node.port ELSE "1812",
     timeout  |-> IF node.timeout # None THEN node.timeout ELSE "2"]

\* what a call of get_config() is to return for a store: built from the
\* defaults of lines 46-49 and 78-84 and the store alone
get_config_expected(st) ==
    IF ~st.exists THEN [server |-> <<>>, source_address |-> ""]
    ELSE [server |-> [i \in 1..Len(list_nodes(st)) |->
                         server_cfg(list_nodes(st)[i][2],
                                    st.server[list_nodes(st)[i][2]])],
          source_address |-> IF st.source_address # None THEN st.source_address
                             ELSE ""]

\* get_config(): radius is default_config_data itself (line 64), so the value
\* returned is also the value default_config_data holds afterwards
radius_get_config(default, st) ==
    IF ~st.exists THEN default
    ELSE [server |-> default.server \o
                     [i \in 1..Len(list_nodes(st)) |->
                         server_cfg(list_nodes(st)[i][2],
                                    st.server[list_nodes(st)[i][2]])],
          source_address |-> IF st.source_address # None THEN st.source_address
                             ELSE default.source_address]

\* radius_verify failing on any disabled server
radius_verify_any_disabled(r) ==
    /\ Len(r.server) > 0
    /\ \E i \in 1..Len(r.server) : r.server[i].disabled

\* verify(radius) raises
radius_verify(r) ==
    /\ Len(r.server) > 0
    /\ \A i \in 1..Len(r.server) : r.server[i].disabled

RadiusError == ConfigError("At least one RADIUS server must be active.", "")

\* one line of the rendered file: a fixed line <<text>>, or a server's line
\* <<address, port, key, timeout, source_address>>
Fixed(text) == <<text>>

RECURSIVE server_lines(_, _)
server_lines(servers, source_address) ==
    IF servers = <<>> THEN <<>>
    ELSE LET s == Head(servers)
         IN  (IF ~s.disabled
              THEN <<<<s.address, s.port, s.key, s.timeout, source_address>>>>
              ELSE <<>>)
             \o server_lines(Tail(servers), source_address)

\* jinja2.Template(radius_config_tmpl).render(radius)
radius_render(r) ==
    <<Fixed(""), Fixed("# Automatically generated by VyOS"),
      Fixed("# RADIUS configuration file")>>
    \o (IF Len(r.server) > 0
        THEN <<Fixed("# server[:port] shared_secret timeout (s) source_ip")>>
             \o server_lines(r.server, r.source_address)
             \o <<Fixed(""), Fixed(""), Fixed("priv-lvl 15"),
                  Fixed("mapped_priv_user radius_priv_user")>>
        ELSE <<>>)
    \o <<Fixed("")>>

NoFile == [exists |-> FALSE, owner |-> None, mode |-> None, content |-> <<>>]

\* radius_generate without the chown and chmod of lines 127-130
radius_generate_nochmod(r, f) ==
    IF Len(r.server) > 0
    THEN [exists |-> TRUE,
          owner |-> IF f.exists THEN f.owner ELSE "root",
          mode |-> IF f.exists THEN f.mode ELSE "rw-r--r--",
          content |-> radius_render(r)]
    ELSE NoFile

\* generate(radius): the file afterwards (S_IRUSR | S_IWUSR is rw-------)
radius_generate(r, f) ==
    IF Len(r.server) > 0
    THEN [exists |-> TRUE, owner |-> "root", mode |-> "rw-------",
          content |-> radius_render(r)]
    ELSE NoFile

\* os.unlink() of a file that does not exist
radius_generate_raises(r, f) == Len(r.server) = 0 /\ ~f.exists

\* apply(radius): the two commands os.system() runs
radius_commands(r) ==
    IF Len(r.server) > 0
    THEN <<"pam-auth-update --package --enable radius", "sed -i (add mapname) /etc/nsswitch.conf">>
    ELSE <<"pam-auth-update --package --remove radius", "sed -i (remove mapname) /etc/nsswitch.conf">>

(***************************************************************************)
(* system-login-radius: __main__, one action per stage.                    *)
(***************************************************************************)
radius_get_config_step ==
    /\ pc = "get_config"
    /\ default_config_data' = radius_get_config(default_config_data, rstore)
    /\ radius' = default_config_data'
    /\ ncalls' = ncalls + 1
    /\ pc' = "verify"
    /\ UNCHANGED <<raised, stdout, status, rstore, file, file0, system_calls>>
    /\ UNCHANGED ripVars

radius_verify_step ==
    /\ pc = "verify"
    /\ IF radius_verify(radius)
       THEN /\ raised' = RadiusError
            /\ stdout' = Append(stdout, RadiusError[2])
            /\ status' = 1
            /\ pc' = "exit"
       ELSE /\ pc' = "generate"
            /\ UNCHANGED <<raised, stdout, status>>
    /\ UNCHANGED radiusVars
    /\ UNCHANGED ripVars

\* an exception that is no ConfigError is not caught: the interpreter writes the
\* traceback to standard error, nothing to standard output, and exits 1
radius_generate_step ==
    /\ pc = "generate"
    /\ IF radius_generate_raises(radius, file)
       THEN /\ raised' = <<"FileNotFoundError", "No such file or directory", "">>
            /\ status' = 1
            /\ pc' = "exit"
            /\ UNCHANGED file
       ELSE /\ file' = radius_generate(radius, file)
            /\ pc' = "apply"
            /\ UNCHANGED <<raised, status>>
    /\ UNCHANGED <<stdout, rstore, default_config_data, radius, ncalls, file0,
                   system_calls>>
    /\ UNCHANGED ripVars

\* os.system() returns the command's exit status and raises nothing when the
\* command fails; apply() ignores the value returned
radius_apply_step ==
    /\ pc = "apply"
    /\ \E ok1 \in BOOLEAN, ok2 \in BOOLEAN :
           system_calls' = <<[cmd |-> radius_commands(radius)[1], ok |-> ok1],
                             [cmd |-> radius_commands(radius)[2], ok |-> ok2]>>
    /\ status' = 0
    /\ pc' = "exit"
    /\ UNCHANGED <<raised, stdout, rstore, default_config_data, radius, ncalls,
                   file, file0>>
    /\ UNCHANGED ripVars

\* get_config() is called again in the same process
radius_call_again ==
    /\ pc = "verify"
    /\ ncalls < MaxCalls
    /\ pc' = "get_config"
    /\ UNCHANGED <<raised, stdout, status>>
    /\ UNCHANGED radiusVars
    /\ UNCHANGED ripVars

\* the rip script's state while the radius script is modelled
RipIdle ==
    /\ store = StoreOf(FALSE, None, None, None, None, None, None, EmptyDict, {}, {}, {})
    /\ rip = EmptyDict
    /\ daemon = <<>>
    /\ daemon0 = <<>>
    /\ first = <<>>
    /\ calls = <<>>
    /\ runs = 0

\* /etc/pam_radius_auth.conf before the run
Files0 == {NoFile,
           [exists |-> TRUE, owner |-> "root", mode |-> "rw-------",
            content |-> <<Fixed("stale")>>],
           [exists |-> TRUE, owner |-> "admin", mode |-> "rw-r--r--",
            content |-> <<Fixed("stale")>>]}

InitRadiusCommon ==
    /\ RunStart
    /\ RipIdle
    /\ pc = "get_config"
    /\ rstore \in RStores
    /\ default_config_data = [server |-> <<>>, source_address |-> ""]
    /\ radius = default_config_data
    /\ ncalls = 0
    /\ system_calls = <<>>

InitRadius ==
    /\ InitRadiusCommon
    /\ file \in Files0
    /\ file0 = file

NextRadius ==
    radius_get_config_step \/ radius_verify_step \/ radius_generate_step
        \/ radius_apply_step

SpecRadius == InitRadius /\ [][NextRadius]_vars

InitGetConfig ==
    /\ InitRadiusCommon
    /\ file = NoFile
    /\ file0 = file

NextGetConfig == radius_get_config_step \/ radius_call_again

SpecGetConfig == InitGetConfig /\ [][NextGetConfig]_vars

(***************************************************************************)
(* Properties of protocols_rip, checked under SpecRip.                     *)
(***************************************************************************)
AfterVerify == pc \in {"generate", "apply", "exit"}

\* generate() and apply() have not run: no rendered text, no call on frr_cfg,
\* ripd's configuration as it was
NotGenerated ==
    /\ "new_frr_config" \notin DOMAIN rip
    /\ calls = <<>>
    /\ daemon = daemon0

RefPaths ==
    <<<<"distribute_list", "access_list", "in">>,
      <<"distribute_list", "access_list", "out">>,
      <<"distribute_list", "prefix_list", "in">>,
      <<"distribute_list", "prefix_list", "out">>>>

RefMessages ==
    <<"Inbound ACL does not exist!", "Outbound ACL does not exist!",
      "Inbound prefix-list does not exist!", "Outbound prefix-list does not exist!">>

PolicyKeys(i) ==
    IF i <= 2 THEN keys_or_empty(<<"policy", "access_list">>, rip)
    ELSE keys_or_empty(<<"policy", "prefix_list">>, rip)

\* the i-th reference names a list that is no key of the policy mapping
MissingAsWritten(i) ==
    /\ dict_has(RefPaths[i], rip)
    /\ dict_get(RefPaths[i], rip) \notin PolicyKeys(i)

\* the same, a prefix-list name taken with '-' replaced by '_'
MissingMangled(i) ==
    /\ dict_has(RefPaths[i], rip)
    /\ (IF i <= 2 THEN dict_get(RefPaths[i], rip)
                  ELSE Replace(dict_get(RefPaths[i], rip))) \notin PolicyKeys(i)

RaisedFor(i) ==
    /\ pc = "exit"
    /\ status = 1
    /\ raised[1] = "ConfigError"
    /\ raised[2] = RefMessages[i]
    /\ raised[3] = dict_get(RefPaths[i], rip)
    /\ NotGenerated

\* C1 as stated: every reference to a name that is no key of the policy mapping
\* makes verify raise the error of its direction and kind, generate and apply do
\* not run; with every referenced name a key, none of the four errors is raised.
C1_AsStated ==
    AfterVerify =>
        /\ \A i \in 1..4 : MissingAsWritten(i) => RaisedFor(i)
        /\ (\A i \in 1..4 : ~MissingAsWritten(i)) =>
               raised[2] \notin {RefMessages[i] : i \in 1..4}

\* C1 amended: verify raises the error of the first reference, in the order
\* inbound ACL, outbound ACL, inbound prefix-list, outbound prefix-list, whose
\* name (a prefix-list's with '-' replaced by '_') is no key of the policy
\* mapping, and then generate and apply do not run; when every name so taken is a
\* key, none of the four errors is raised.
C1_FirstMissingReference ==
    AfterVerify =>
        /\ \A i \in 1..4 :
               (MissingMangled(i) /\ \A j \in 1..(i - 1) : ~MissingMangled(j))
                   => RaisedFor(i)
        /\ (\A i \in 1..4 : ~MissingMangled(i)) =>
               raised[2] \notin {RefMessages[i] : i \in 1..4}

\* a run that verify ended over the outbound prefix-list, after it passed an
\* inbound ACL and an inbound prefix-list written with a hyphen
C1_Witness ==
    /\ pc = "exit"
    /\ raised[2] = RefMessages[4]
    /\ dict_search(RefPaths[4], rip) = "c"
    /\ dict_search(RefPaths[3], rip) = "a-b"
    /\ dict_search(RefPaths[1], rip) = "10"
    /\ NotGenerated

BothAuth(o) ==
    /\ "authentication" \in DOMAIN o
    /\ "md5" \in DOMAIN o["authentication"]
    /\ "plaintext_password" \in DOMAIN o["authentication"]

BothSplit(o) ==
    /\ "split_horizon" \in DOMAIN o
    /\ "disable" \in DOMAIN o["split_horizon"]
    /\ "poison_reverse" \in DOMAIN o["split_horizon"]

RipInterfaces == IF "interface" \in DOMAIN rip THEN rip["interface"] ELSE EmptyDict

AuthMessage  == "Can not use both md5 and plaintext-password at the same time!"
SplitMessage == "You can not have split-horizon poison-reverse enabled with split-horizon disable"

\* C2: a non-empty mapping in which some interface has both md5 and
\* plaintext_password, or both disable and poison_reverse, makes verify raise a
\* ConfigError; the authentication error is raised only with an interface that has
\* both authentication options, the split-horizon error only for an interface
\* that has both split-horizon options.
C2_ConflictingOptions ==
    AfterVerify =>
        /\ (\E i \in DOMAIN RipInterfaces :
                BothAuth(RipInterfaces[i]) \/ BothSplit(RipInterfaces[i]))
              => (pc = "exit" /\ status = 1 /\ raised[1] = "ConfigError" /\ NotGenerated)
        /\ raised[2] = AuthMessage =>
               \E i \in DOMAIN RipInterfaces : BothAuth(RipInterfaces[i])
        /\ raised[2] = SplitMessage =>
               (raised[3] \in DOMAIN RipInterfaces /\ BothSplit(RipInterfaces[raised[3]]))

\* the split-horizon error raised for the second interface, the first carrying one
\* option of each pair
C2_Witness ==
    /\ pc = "exit"
    /\ raised[2] = SplitMessage
    /\ raised[3] = 2
    /\ DOMAIN RipInterfaces = {1, 2}
    /\ DOMAIN RipInterfaces[1] = {"authentication", "split_horizon"}
    /\ ~BothAuth(RipInterfaces[1])
    /\ ~BothSplit(RipInterfaces[1])

\* C3: without "protocols rip" in the store, get_config returns the empty mapping
\* (no defaults, no policy), verify returns, and generate leaves exactly the key
\* new_frr_config, holding the empty text.
C3_AbsentSubtree ==
    ~store.exists =>
        /\ pc \in {"verify", "generate"} => rip = EmptyDict
        /\ pc # "get_config" => (raised = NoError /\ status # 1)
        /\ pc \in {"apply", "exit"} =>
               (DOMAIN rip = {"new_frr_config"} /\ rip["new_frr_config"] = <<>>)

\* the run ended for a store with policy lists and no "protocols rip"
C3_Witness ==
    /\ ~store.exists
    /\ store.pol_acl # {}
    /\ store.pol_pl # {}
    /\ pc = "exit"
    /\ status = 0
    /\ rip["new_frr_config"] = <<>>

Commits == {i \in 1..Len(calls) : calls[i] = "commit_configuration"}
Edits   == {i \in 1..Len(calls) : calls[i] # "commit_configuration"}

\* C5: apply commits 6 times when the rendered text is empty and once otherwise,
\* no error being involved, and every commit follows the load, the three section
\* removals and the insertion.
C5_CommitCount ==
    (pc = "exit" /\ status = 0) =>
        /\ Cardinality(Commits) = (IF rip["new_frr_config"] = <<>> THEN 6 ELSE 1)
        /\ raised = NoError
        /\ {calls[i] : i \in Edits} =
               {"load_configuration", "modify_section key chain",
                "modify_section interface", "modify_section router rip", "add_before"}
        /\ \A i \in Commits, j \in Edits : j < i

\* apply has run on an empty text and committed six times
C5_Witness ==
    /\ pc = "exit"
    /\ status = 0
    /\ rip["new_frr_config"] = <<>>
    /\ Cardinality(Commits) = 6
    /\ daemon # daemon0

\* C9: verify and apply leave the subtree dictionary as it is; generate changes
\* nothing of it but the key new_frr_config.
C9_DictionaryFrame ==
    [][/\ pc \in {"verify", "apply"} => rip' = rip
       /\ pc = "generate" =>
              /\ DOMAIN rip' = (DOMAIN rip) \cup {"new_frr_config"}
              /\ \A k \in (DOMAIN rip) \ {"new_frr_config"} : rip'[k] = rip[k]]_vars

\* a run that ended normally with a mapping holding more than the rendered text
C9_Witness ==
    /\ pc = "exit"
    /\ status = 0
    /\ {"new_frr_config", "interface", "policy", "distribute_list"} \subseteq DOMAIN rip
    /\ rip["new_frr_config"] # <<>>

(***************************************************************************)
(* Properties of apply run twice, checked under SpecApply.                 *)
(***************************************************************************)
RemovedKinds == {KeyChain, Interface, RouterRip}

Others(config) ==
    LET other(s) == Kind(s) \notin RemovedKinds IN SelectSeq(config, other)

OnlyRemovedKinds(text) == \A i \in 1..Len(text) : Kind(text[i]) \in RemovedKinds

Servers == radius.server

AllDisabled == \A i \in 1..Len(Servers) : Servers[i].disabled

\* the lines of the file that are server lines
ServerLines == {i \in 1..Len(file.content) : Len(file.content[i]) = 5}

LineOf(s) == <<s.address, s.port, s.key, s.timeout, radius.source_address>>

\* generate() has written the file in this run
Written == Len(Servers) > 0 /\ (pc = "apply" \/ (pc = "exit" /\ status = 0))

\* C4: verify raises exactly when the server list is non-empty and every entry is
\* disabled; the text generate writes has the line of each enabled entry, and no
\* line of a disabled one.
C4_VerifyAndRender ==
    /\ pc \in {"generate", "apply", "exit"} =>
           ((raised = RadiusError /\ status = 1) <=> (Len(Servers) > 0 /\ AllDisabled))
    /\ Written =>
           /\ \A i \in 1..Len(Servers) :
                  IF Servers[i].disabled
                  THEN \A l \in ServerLines : file.content[l][1] # Servers[i].address
                  ELSE \E l \in ServerLines : file.content[l] = LineOf(Servers[i])
           /\ Cardinality(ServerLines) =
                  Cardinality({i \in 1..Len(Servers) : ~Servers[i].disabled})

\* one disabled and one enabled entry: verify passed and the file holds one
\* server line, the enabled entry's
C4_Witness ==
    /\ pc = "exit"
    /\ status = 0
    /\ Len(Servers) = 2
    /\ Servers[1].disabled
    /\ ~Servers[2].disabled
    /\ Servers[2].key = "s3cret"
    /\ Cardinality(ServerLines) = 1
    /\ \E l \in ServerLines : file.content[l] = LineOf(Servers[2])

\* the store configures at least one server that is not disabled
FeatureActive == \E a \in DOMAIN rstore.server : ~rstore.server[a].disable

FileState ==
    /\ file.exists <=> FeatureActive
    /\ file.exists => (file.owner = "root" /\ file.mode = "rw-------")

\* C6 as stated: after the run the file exists exactly when an enabled server is
\* configured, and then it is root's with owner-only read/write mode.
C6_AsStated == pc = "exit" => FileState

\* C6 amended: after a run that verify did not reject, the file exists exactly
\* when an enabled server is configured, and then it is root's with owner-only
\* read/write mode; when verify rejects the list (every entry disabled), the file
\* is left as it was before the run.
C6_FileAfterRun ==
    pc = "exit" => IF raised = RadiusError THEN file = file0 ELSE FileState

\* a run that replaced a file of another owner and mode
C6_Witness ==
    /\ pc = "exit"
    /\ status = 0
    /\ FeatureActive
    /\ file0.exists
    /\ file0.owner # "root"
    /\ file0.mode # "rw-------"
    /\ file.exists
    /\ file.owner = "root"
    /\ file.content # file0.content

\* a stage failed: an exception ended it, or an external command failed
Failure ==
    \/ raised # NoError
    \/ \E i \in 1..Len(system_calls) : ~system_calls[i].ok

\* C8: every failure ends the run with a message on standard output and exit
\* status 1, and a run ends with status 0 only when no stage failed.
C8_ExitContract ==
    pc = "exit" =>
        /\ Failure => (status = 1 /\ stdout # <<>>)
        /\ status = 0 => ~Failure

(***************************************************************************)
(* Property of get_config of system-login-radius, checked under            *)
(* SpecGetConfig.                                                          *)
(***************************************************************************)
\* C10: every call of get_config returns one entry per server node of the store,
\* in listing order, explicit values over the defaults, whatever calls came
\* before, and default_config_data still has an empty server list afterwards.
C10_GetConfigResult ==
    pc = "verify" =>
        /\ radius = get_config_expected(rstore)
        /\ default_config_data.server = <<>>

====
